---- MODULE Spec2Model ----
(***************************************************************************)
(* Model of difyDslGenCheck.py: the generate -> check -> ask-operator      *)
(* graph built by create_workflow_graph, the three node functions          *)
(* (generate_workflow with its resume loop _get_complete_answer,           *)
(* check_workflow, ask_operator) and the final report of main.             *)
(*                                                                         *)
(* Texts are TLC strings (concatenated with \o); a rendered prompt is the  *)
(* sequence of its segments; an exception message is a sequence of words,  *)
(* so that the substring test of line 81 is computed, not assumed.         *)
(***************************************************************************)
EXTENDS Integers, Sequences, FiniteSets, TLC

\* ---------------------------------------------------------------- bounds
\* Generator invocations in one run (the graph itself has no cap).
MaxIter == 3
\* Length-limit failures in one Generator invocation (the loop has no cap).
MaxTrunc == 2
\* Unrecognised operator inputs in one OperatorGate invocation.
MaxInvalid == 2

\* ------------------------------------------------------- input alphabets
\* main(): wanted_workflow, the request of the run.
Queries == {"recipe article workflow"}
\* Texts a completed client call can return.
Answers == {"A", "B"}
\* Texts a call had produced when it was cut off by the length limit.
Partials == {"", "P"}
\* Reasons of a Judgement; two of them spell out a verdict.
Reasons == {"", "missing step 2", "True", "False"}
\* The structured responses of the client (class Judgement).
Judgements == [reason : Reasons, judge : BOOLEAN]
\* Lines the operator can type.
Inputs == {"y", "Y", "n", "N", "x", ""}
\* Messages of the exceptions chain.invoke can raise, as word sequences.
ErrLength == <<"exceeds", "maximum", "context", "length", "of", "model">>
ErrOther == <<"rate", "limit", "maximum", "retries">>
ErrorMessages == {ErrLength, ErrOther}
\* Outcomes of open() + yaml.safe_load().
LoadFailures == {"TemplateNotFound", "TemplateParseError"}
\* Content of workflow_generator_prompt.yml.
RoleDetails == "RULES"

\* ------------------------------------------------------ fixed text pieces
\* Line 55: the feedback block of the retry template.
FeedbackBlock == "\nfix the problems detected in the previous generation:\n"
\* Line 75: the marker put before the existing answer.
ExistingAnswer == "\nexisting answer:"
\* Line 81: the phrase looked for in the exception text.
LengthPhrase == <<"maximum", "context", "length">>

VARIABLES
    pc,                 \* node about to run / position inside a node
    query,              \* State.query
    messages,           \* State.messages
    current_judge,      \* State.current_judge
    judgement_reason,   \* State.judgement_reason
    operator_approved,  \* State.operator_approved
    answer,             \* _get_complete_answer: local accumulator
    current_answer,     \* _get_complete_answer: text of the completed call
    arg_reason,         \* _get_complete_answer: judgement_reason argument
    sent,               \* last request handed to chain.invoke (<<>> if none)
    exc,                \* exception of the last chain.invoke (<<>> if none)
    partials,           \* texts cut off by the length limit, this invocation
    llm_calls,          \* client calls of the current Generator invocation
    total_llm,          \* client calls of the whole run
    genLog,             \* one record per Generator invocation
    checkLog,           \* the client's Judgement of every completed check
    checked,            \* candidates read by check_workflow, in order
    opLog,              \* recognised operator decisions, in order
    op_calls,           \* ask_operator invocations
    shown,              \* what ask_operator printed last (<<>> if none)
    typed,              \* last line read by input(), as typed
    response,           \* the same line after .lower()
    invalid,            \* unrecognised inputs in this ask_operator call
    raised,             \* exception that ended the run ("" if none)
    reported            \* what main logged after invoke returned (<<>> if none)

vars == <<pc, query, messages, current_judge, judgement_reason,
          operator_approved, answer, current_answer, arg_reason, sent, exc,
          partials, llm_calls, total_llm, genLog, checkLog, checked, opLog,
          op_calls, shown, typed, response, invalid, raised, reported>>

\* The RunState record threaded through the graph.
RunState == <<query, messages, current_judge, judgement_reason,
              operator_approved>>

\* The locals of one generate_workflow / _get_complete_answer call.
genLocals == <<answer, current_answer, arg_reason, partials, llm_calls>>

\* The locals of one ask_operator call.
opLocals == <<typed, response, invalid>>

\* The record of what the run has done so far.
logs == <<genLog, checkLog, checked, opLog, op_calls>>

\* ------------------------------------------------------------- helpers
\* Mutant of Last: the first entry is read (index 0 for index -1).
FirstEntry(s) == s[1]

\* Python's s[-1].
Last(s) == s[Len(s)]

\* Python's "needle in hay" on word sequences.
Contains(needle, hay) ==
    \E i \in 1..(Len(hay) - Len(needle) + 1) :
        SubSeq(hay, i, i + Len(needle) - 1) = needle

RECURSIVE Concat(_)
Concat(ss) == IF ss = <<>> THEN "" ELSE Head(ss) \o Concat(Tail(ss))

\* The spec's state names in terms of the program counter.
Generating == pc \in {"workflow_generator", "get_complete_answer"}
Checking == pc = "check"
AwaitingOperator == pc \in {"ask_operator", "input"}
Done == pc \in {"END", "exit"}
Aborted == pc = "raised"

\* ------------------------------------------------- the program's functions
\* Mutant of operator_add: the update replaces the list (no reducer).
OperatorAddOverwrites(old, new) == new

\* State.messages is Annotated[list[str], operator.add]: an update of
\* messages is merged by list concatenation.
operator_add(old, new) == old \o new

\* Mutant of lower: the line is compared as typed.
LowerIsIdentity(s) == s

\* str.lower() on the lines of Inputs.
lower(s) ==
    CASE s = "Y" -> "y"
      [] s = "N" -> "n"
      [] OTHER -> s

\* Mutant of render_prompt: the retry template is used for every call.
RenderPromptAlwaysBlock(role_details, q, reason, state_reason) ==
    <<role_details, q, FeedbackBlock, reason>>

\* generate_workflow, lines 52-61: the template chosen by the truthiness of
\* state.judgement_reason, rendered with the variables of chain.invoke
\* (role is passed but no template mentions it).
render_prompt(role_details, q, reason, state_reason) ==
    IF state_reason # ""
    THEN <<role_details, q, FeedbackBlock, reason>>
    ELSE <<role_details, q>>

\* Mutant of invoke_query: the existing-answer marker is always appended.
InvokeQueryAlwaysMarks(q, acc) == q \o ExistingAnswer \o acc

\* _get_complete_answer, line 75: the query variable of one call.
invoke_query(q, acc) == q \o (IF acc # "" THEN ExistingAnswer \o acc ELSE "")

\* Mutant of is_length_limit: the phrase is never recognised.
IsLengthLimitNever(e) == FALSE

\* Mutant of is_length_limit: every exception is swallowed and retried.
IsLengthLimitAlways(e) == TRUE

\* _get_complete_answer, line 81: is the exception a length-limit signal.
is_length_limit(e) == Contains(LengthPhrase, e)

\* Mutant of feedback_arg: the reason of the first check is kept as feedback.
FeedbackFromFirstCheck == IF checkLog = <<>> THEN "" ELSE checkLog[1].reason

\* generate_workflow, line 63: the feedback handed to the resume loop.
feedback_arg == judgement_reason

\* Mutant of check_update: the verdict is read off the reason text.
CheckUpdateFromReasonText(result) ==
    [current_judge |-> IF result.reason \in {"True", "False"}
                       THEN result.reason = "True"
                       ELSE result.judge,
     judgement_reason |-> result.reason]

\* Mutant of check_update: the reason of the new Judgement is not stored.
CheckUpdateKeepsReason(result) ==
    [current_judge |-> result.judge, judgement_reason |-> judgement_reason]

\* check_workflow, lines 108-111: the update returned for a Judgement.
check_update(result) ==
    [current_judge |-> result.judge, judgement_reason |-> result.reason]

\* Mutant of ask_operator_update: 'else' instead of 'elif', any line other
\* than 'y' approves.
AskOperatorElseApproves(r) ==
    IF r = "y" THEN [returns |-> TRUE, operator_approved |-> FALSE]
    ELSE [returns |-> TRUE, operator_approved |-> TRUE]

\* Mutant of ask_operator_update: the two answers are swapped.
AskOperatorSwapped(r) ==
    IF r = "y" THEN [returns |-> TRUE, operator_approved |-> TRUE]
    ELSE IF r = "n" THEN [returns |-> TRUE, operator_approved |-> FALSE]
    ELSE [returns |-> FALSE]

\* ask_operator, lines 120-125: the update returned for a lower-cased line
\* (returns = FALSE: nothing is returned, the loop prompts again).
ask_operator_update(r) ==
    IF r = "y" THEN [returns |-> TRUE, operator_approved |-> FALSE]
    ELSE IF r = "n" THEN [returns |-> TRUE, operator_approved |-> TRUE]
    ELSE [returns |-> FALSE]

\* Mutant of route_check: the two targets are swapped.
RouteCheckInverted(judge) == IF judge THEN "ask_operator" ELSE "END"

\* Mutant of route_check: the operator is asked after every check.
RouteCheckAlwaysAsks(judge) == "ask_operator"

\* create_workflow_graph, lines 137-141: the edge out of "check".
route_check(judge) == IF judge THEN "END" ELSE "ask_operator"

\* Mutant of route_operator: the two targets are swapped.
RouteOperatorInverted(approved) ==
    IF approved THEN "workflow_generator" ELSE "END"

\* Mutant of route_operator: the loop gives up after two candidates.
RouteOperatorCapped(approved) ==
    IF approved \/ Len(messages) >= 2 THEN "END" ELSE "workflow_generator"

\* create_workflow_graph, lines 143-147: the edge out of "ask_operator".
route_operator(approved) == IF approved THEN "END" ELSE "workflow_generator"

\* ---------------------------------------------------------------- Init
\* main(), line 165: State(query=wanted_workflow) with the field defaults.
Init ==
    /\ pc = "workflow_generator"
    /\ query \in Queries
    /\ messages = <<>>
    /\ current_judge = FALSE
    /\ judgement_reason = ""
    /\ operator_approved = FALSE
    /\ answer = ""
    /\ current_answer = ""
    /\ arg_reason = ""
    /\ sent = <<>>
    /\ exc = <<>>
    /\ partials = <<>>
    /\ llm_calls = 0
    /\ total_llm = 0
    /\ genLog = <<>>
    /\ checkLog = <<>>
    /\ checked = <<>>
    /\ opLog = <<>>
    /\ op_calls = 0
    /\ shown = <<>>
    /\ typed = ""
    /\ response = ""
    /\ invalid = 0
    /\ raised = ""
    /\ reported = <<>>

\* ------------------------------------------------------------- Generator
\* The locals of ask_operator are gone once the next node starts.
DropOpLocals == typed' = "" /\ response' = "" /\ invalid' = 0

\* The locals of generate_workflow are gone once the next node has run.
DropGenLocals ==
    /\ answer' = ""
    /\ current_answer' = ""
    /\ arg_reason' = ""
    /\ partials' = <<>>
    /\ llm_calls' = 0

\* generate_workflow, lines 46-63 up to the first client call: load the
\* template, choose the prompt, enter _get_complete_answer (answer = "").
GenerateStart ==
    /\ pc = "workflow_generator"
    /\ Len(genLog) < MaxIter
    /\ pc' = "get_complete_answer"
    /\ answer' = ""
    /\ current_answer' = ""
    /\ arg_reason' = feedback_arg
    /\ partials' = <<>>
    /\ llm_calls' = 0
    /\ genLog' = Append(genLog, [feedback |-> feedback_arg,
                                 state_reason |-> judgement_reason])
    /\ DropOpLocals
    /\ UNCHANGED <<RunState, sent, exc, total_llm, checkLog, checked, opLog,
                   op_calls, shown, raised, reported>>

\* load_prompt raises inside generate_workflow (line 49).
GenerateLoadFails ==
    /\ pc = "workflow_generator"
    /\ Len(genLog) < MaxIter
    /\ \E e \in LoadFailures : raised' = e
    /\ pc' = "raised"
    /\ DropOpLocals
    /\ UNCHANGED <<RunState, genLocals, sent, exc, total_llm, logs, shown,
                   reported>>

\* The request of the next chain.invoke of the resume loop (lines 72-77).
NextRequest ==
    [prompt |-> render_prompt(RoleDetails, invoke_query(query, answer),
                              arg_reason, judgement_reason),
     query |-> invoke_query(query, answer),
     judgement_reason |-> arg_reason]

\* One pass of the while loop whose call completes (lines 72-79, 83, 65-66):
\* the text is added to answer, the loop breaks, generate_workflow returns
\* {"messages": [answer]} and the graph moves on to "check".
InvokeCompletes ==
    /\ pc = "get_complete_answer"
    /\ \E text \in Answers :
        /\ current_answer' = text
        /\ answer' = answer \o text
        /\ messages' = operator_add(messages, <<answer'>>)
    /\ sent' = <<NextRequest>>
    /\ exc' = <<>>
    /\ llm_calls' = llm_calls + 1
    /\ total_llm' = total_llm + 1
    /\ pc' = "check"
    /\ UNCHANGED <<query, current_judge, judgement_reason, operator_approved,
                   arg_reason, partials, logs, shown, opLocals, raised,
                   reported>>

\* One pass whose call raises the length-limit exception (lines 80-82): the
\* text the client had produced is not part of the exception; the loop
\* goes round again.
InvokeTruncated ==
    /\ pc = "get_complete_answer"
    /\ Len(partials) < MaxTrunc
    /\ \E e \in ErrorMessages, p \in Partials :
        /\ is_length_limit(e)
        /\ exc' = e
        /\ partials' = Append(partials, p)
    /\ sent' = <<NextRequest>>
    /\ llm_calls' = llm_calls + 1
    /\ total_llm' = total_llm + 1
    /\ UNCHANGED <<pc, RunState, answer, current_answer, arg_reason, logs,
                   shown, opLocals, raised, reported>>

\* One pass whose call raises any other exception (line 82: raise e).
InvokeFails ==
    /\ pc = "get_complete_answer"
    /\ \E e \in ErrorMessages :
        /\ ~is_length_limit(e)
        /\ exc' = e
        /\ raised' = "ClientFailure"
    /\ sent' = <<NextRequest>>
    /\ llm_calls' = llm_calls + 1
    /\ total_llm' = total_llm + 1
    /\ pc' = "raised"
    /\ UNCHANGED <<RunState, answer, current_answer, arg_reason, partials,
                   logs, shown, opLocals, reported>>

\* ------------------------------------------------------------- Validator
\* The request of check_workflow's chain.invoke (lines 90-105).
CheckRequest ==
    [prompt |-> <<RoleDetails, Last(messages)>>,
     query |-> query,
     judgement_reason |-> ""]

\* check_workflow, lines 86-111, and the conditional edge of lines 137-141:
\* read messages[-1], load the template, one structured client call, merge
\* the update, follow the edge chosen by state.current_judge.
CheckReturns ==
    /\ pc = "check"
    /\ \E result \in Judgements :
        /\ checkLog' = Append(checkLog, result)
        /\ current_judge' = check_update(result).current_judge
        /\ judgement_reason' = check_update(result).judgement_reason
    /\ checked' = Append(checked, Last(messages))
    /\ sent' = <<CheckRequest>>
    /\ exc' = <<>>
    /\ total_llm' = total_llm + 1
    /\ pc' = route_check(current_judge')
    /\ DropGenLocals
    /\ UNCHANGED <<query, messages, operator_approved, genLog, opLog,
                   op_calls, shown, opLocals, raised, reported>>

\* Mutant of CheckLoadFails: the template is loaded after chain.invoke.
CheckLoadFailsAfterCall ==
    /\ pc = "check"
    /\ \E e \in LoadFailures : raised' = e
    /\ checked' = Append(checked, Last(messages))
    /\ sent' = <<[prompt |-> <<Last(messages)>>, query |-> query,
                  judgement_reason |-> ""]>>
    /\ exc' = <<>>
    /\ total_llm' = total_llm + 1
    /\ pc' = "raised"
    /\ DropGenLocals
    /\ UNCHANGED <<RunState, genLog, checkLog, opLog, op_calls, shown,
                   opLocals, reported>>

\* load_prompt raises inside check_workflow (line 88), before the call.
CheckLoadFails ==
    /\ pc = "check"
    /\ \E e \in LoadFailures : raised' = e
    /\ checked' = Append(checked, Last(messages))
    /\ pc' = "raised"
    /\ DropGenLocals
    /\ UNCHANGED <<RunState, sent, exc, total_llm, genLog, checkLog, opLog,
                   op_calls, shown, opLocals, reported>>

\* chain.invoke raises inside check_workflow (line 101): nothing catches it.
CheckInvokeFails ==
    /\ pc = "check"
    /\ \E e \in ErrorMessages : exc' = e /\ raised' = "ClientFailure"
    /\ checked' = Append(checked, Last(messages))
    /\ sent' = <<CheckRequest>>
    /\ total_llm' = total_llm + 1
    /\ pc' = "raised"
    /\ DropGenLocals
    /\ UNCHANGED <<RunState, genLog, checkLog, opLog, op_calls, shown,
                   opLocals, reported>>

\* ---------------------------------------------------------- OperatorGate
\* ask_operator, lines 113-116: print the reason and the candidate.
AskOperator ==
    /\ pc = "ask_operator"
    /\ shown' = <<[reason |-> judgement_reason, candidate |-> Last(messages)]>>
    /\ op_calls' = op_calls + 1
    /\ pc' = "input"
    /\ UNCHANGED <<RunState, genLocals, sent, exc, total_llm, genLog, checkLog,
                   checked, opLog, opLocals, raised, reported>>

\* Mutant of OperatorDecides: the update also clears judgement_reason.
OperatorDecidesClearsReason ==
    /\ pc = "input"
    /\ \E line \in Inputs :
        /\ ask_operator_update(lower(line)).returns
        /\ typed' = line
        /\ response' = lower(line)
        /\ operator_approved' =
               ask_operator_update(lower(line)).operator_approved
        /\ opLog' = Append(opLog, lower(line))
    /\ judgement_reason' = ""
    /\ pc' = route_operator(operator_approved')
    /\ UNCHANGED <<query, messages, current_judge, genLocals, sent, exc,
                   total_llm, genLog, checkLog, checked, op_calls, shown,
                   invalid, raised, reported>>

\* ask_operator, lines 118-123, and the edge of lines 143-147: a line that
\* lower-cases to 'y' or 'n' is read, the update is merged, the edge chosen
\* by state.operator_approved is followed.
OperatorDecides ==
    /\ pc = "input"
    /\ \E line \in Inputs :
        /\ ask_operator_update(lower(line)).returns
        /\ typed' = line
        /\ response' = lower(line)
        /\ operator_approved' =
               ask_operator_update(lower(line)).operator_approved
        /\ opLog' = Append(opLog, lower(line))
    /\ pc' = route_operator(operator_approved')
    /\ UNCHANGED <<query, messages, current_judge, judgement_reason,
                   genLocals, sent, exc, total_llm, genLog, checkLog, checked,
                   op_calls, shown, invalid, raised, reported>>

\* ask_operator, lines 124-125: any other line prints the hint and the
\* loop prompts again.
OperatorInvalid ==
    /\ pc = "input"
    /\ invalid < MaxInvalid
    /\ \E line \in Inputs :
        /\ ~ask_operator_update(lower(line)).returns
        /\ typed' = line
        /\ response' = lower(line)
    /\ invalid' = invalid + 1
    /\ UNCHANGED <<pc, RunState, genLocals, sent, exc, total_llm, logs, shown,
                   raised, reported>>

\* ------------------------------------------------------------------ main
\* main, lines 166-171: invoke has returned; log the verdict, the reason
\* and the last message.
Report ==
    /\ pc = "END"
    /\ reported' = <<[judge |-> current_judge, reason |-> judgement_reason,
                      candidate |-> Last(messages)]>>
    /\ pc' = "exit"
    /\ DropOpLocals
    /\ UNCHANGED <<RunState, genLocals, sent, exc, total_llm, logs, shown,
                   raised>>

Next ==
    \/ GenerateStart
    \/ GenerateLoadFails
    \/ InvokeCompletes
    \/ InvokeTruncated
    \/ InvokeFails
    \/ CheckReturns
    \/ CheckLoadFails
    \/ CheckInvokeFails
    \/ AskOperator
    \/ OperatorDecides
    \/ OperatorInvalid
    \/ Report

Spec == Init /\ [][Next]_vars

\* ================================================================ claims
\* The two lines the console recognises, in either case.
AcceptTokens == {"n", "N"}
RegenerateTokens == {"y", "Y"}

\* Number of completed checks whose verdict was a failure.
FailedChecks == Cardinality({i \in 1..Len(checkLog) : ~checkLog[i].judge})

\* C1 -- Termination correctness: in every reachable state the run is in
\* Done if and only if current_judge or operator_approved is true; Done is
\* never reached with both false.
C1_TerminationCorrectness == Done <=> (current_judge \/ operator_approved)

\* C1 witness: Done reached by a passing check after a failed one.
C1_Witness == pc = "END" /\ current_judge /\ Len(checkLog) = 2

\* C2 -- In every Done state exactly one of current_judge and
\* operator_approved is true; they are never both true at termination.
C2_ExactlyOneAtDone == Done => (current_judge # operator_approved)

\* C2 witness: failed checks, operator declines, then a passing check.
C2_Witness ==
    /\ Done
    /\ current_judge
    /\ ~operator_approved
    /\ opLog = <<"y", "y">>

\* C3 -- Feedback threading: the feedback of Generator invocation k+1 is the
\* reason of check k (the most recent check), and every prompt rendered in
\* invocation k+1 carries that reason after the feedback block.
C3_FeedbackThreading ==
    /\ \A k \in 1..(Len(genLog) - 1) :
           genLog[k + 1].feedback = checkLog[k].reason
    /\ (Len(genLog) >= 2 /\ llm_calls > 0) =>
           LET R == checkLog[Len(genLog) - 1].reason
           IN  /\ sent[1].judgement_reason = R
               /\ R # "" =>
                    sent[1].prompt =
                        <<RoleDetails, sent[1].query, FeedbackBlock, R>>

\* C3 witness: the third generation has called the client, after two failed
\* checks with different reasons.
C3_Witness ==
    /\ pc = "check"
    /\ Len(genLog) = 3
    /\ checkLog[1].reason = "missing step 2"
    /\ checkLog[2].reason = "False"

\* C4 -- History monotonicity: a Generating -> Checking step makes messages
\* exactly one longer, and every step keeps the existing entries in place.
C4_HistoryMonotone ==
    [][/\ Len(messages') >= Len(messages)
       /\ SubSeq(messages', 1, Len(messages)) = messages
       /\ (Generating /\ pc' = "check") =>
              Len(messages') = Len(messages) + 1]_vars

\* C4 witness: three generations have been appended.
C4_Witness == pc = "check" /\ Len(messages) = 3 /\ messages[1] # messages[2]

\* C5 -- Resume protocol: a Generator invocation whose first N calls were cut
\* off by the length limit issues N+1 calls and returns the partial
\* responses, in call order, followed by the final response.
C5_ResumeConcatenation ==
    (pc = "check") =>
        /\ llm_calls = Len(partials) + 1
        /\ Last(messages) = Concat(partials) \o current_answer

\* C6 -- Verdict fidelity: after every check current_judge is the judge
\* field and judgement_reason the reason field of the client's Judgement.
C6_VerdictFidelity ==
    (checkLog # <<>>) =>
        /\ current_judge = Last(checkLog).judge
        /\ judgement_reason = Last(checkLog).reason

\* C6 witness: a failing Judgement whose reason reads 'True'.
C6_Witness ==
    /\ pc = "input"
    /\ checkLog # <<>>
    /\ Last(checkLog) = [reason |-> "True", judge |-> FALSE]

\* C7 -- Operator decisions: an accept line (n or N) sets operator_approved
\* and ends the run with the rejected candidate that was shown as the last
\* message; a regenerate line (y or Y) clears operator_approved and leads
\* back to the generator.
C7_OperatorDecision ==
    [][/\ (pc = "input" /\ typed' \in AcceptTokens) =>
              /\ operator_approved'
              /\ pc' = "END"
              /\ ~current_judge'
              /\ messages' = messages
              /\ Last(messages') = shown[1].candidate
       /\ (pc = "input" /\ typed' \in RegenerateTokens) =>
              /\ ~operator_approved'
              /\ pc' = "workflow_generator"]_vars

\* C7 witness: an upper-case accept of the second candidate.
C7_Witness == typed = "N" /\ pc = "END" /\ Len(messages) = 2

\* C8 -- Invalid operator input: reading a line other than the recognised
\* ones leaves RunState unchanged, stays in the input loop and starts no
\* Generator, Validator or OperatorGate invocation and no failure.
C8_InvalidInputNoEffect ==
    [][(pc = "input" /\ typed' \notin (AcceptTokens \cup RegenerateTokens)) =>
           /\ UNCHANGED RunState
           /\ pc' = "input"
           /\ UNCHANGED <<logs, total_llm, raised, shown>>]_vars

\* C8 witness: two invalid lines have been read in one gate invocation.
C8_Witness == pc = "input" /\ invalid = 2 /\ typed = "x" /\ op_calls = 2

\* C9 -- Every check fails, the operator regenerates n times and then
\* accepts: Generator, Validator and OperatorGate have each run n+1 times
\* and the run is Done with operator_approved and not current_judge.
C9_AllFailThenAccept ==
    (opLog # <<>> /\ Last(opLog) = "n") =>
        /\ Done
        /\ \A i \in 1..(Len(opLog) - 1) : opLog[i] = "y"
        /\ \A i \in 1..Len(checkLog) : ~checkLog[i].judge
        /\ Len(genLog) = Len(opLog)
        /\ Len(checkLog) = Len(opLog)
        /\ op_calls = Len(opLog)
        /\ operator_approved
        /\ ~current_judge

\* C9 witness: the spec's scenario, n = 2.
C9_Witness ==
    /\ pc = "END"
    /\ opLog = <<"y", "y", "n">>
    /\ \A i \in 1..Len(checkLog) :
           checkLog[i] = [reason |-> "missing step 2", judge |-> FALSE]
    /\ Len(genLog) = 3

\* C10 -- The OperatorGate runs only right after a failed check: its
\* invocations, plus the one pending right after a failed check, number the
\* failed checks; a passing first check ends the run with one Generator
\* and one Validator invocation and no OperatorGate invocation.
C10_GateOnlyAfterFailedCheck ==
    /\ op_calls + (IF pc = "ask_operator" THEN 1 ELSE 0) = FailedChecks
    /\ (pc = "ask_operator") => ~Last(checkLog).judge
    /\ Done => op_calls = FailedChecks
    /\ (checkLog # <<>> /\ checkLog[1].judge) =>
           /\ Done
           /\ current_judge
           /\ Len(genLog) = 1
           /\ Len(checkLog) = 1
           /\ op_calls = 0

\* C10 witness: the first check passed.
C10_Witness == pc = "exit" /\ checkLog[1].judge /\ op_calls = 0

\* C11 -- ClientFailure is fatal: a client call that raises anything but the
\* length-limit signal, in generate or in check, ends the run abnormally
\* with RunState (messages included) untouched, and no step follows an
\* abnormal end (no retry).
C11_ClientFailureFatal ==
    [][/\ (total_llm' # total_llm /\ exc' # <<>>
              /\ ~Contains(LengthPhrase, exc')) =>
              /\ pc' = "raised"
              /\ raised' = "ClientFailure"
              /\ UNCHANGED RunState
       /\ (pc = "raised") => UNCHANGED vars]_vars

\* C11 witness: the second generation attempt failed; messages holds only
\* the first document.
C11_Witness ==
    /\ pc = "raised"
    /\ raised = "ClientFailure"
    /\ exc = ErrOther
    /\ Len(genLog) = 2
    /\ Len(messages) = 1
    /\ Len(checked) = 1

\* C12 -- No iteration cap: after n failed checks, each followed by an
\* operator decline, the run is not in Done but in its next generation or
\* check, for every n the model reaches; Done is reached as soon as a check
\* passes or the operator accepts.
C12_NoIterationCap ==
    /\ (/\ raised = ""
        /\ Len(opLog) = Len(checkLog)
        /\ \A i \in 1..Len(opLog) : opLog[i] = "y"
        /\ \A i \in 1..Len(checkLog) : ~checkLog[i].judge) =>
           (~Done /\ (Generating \/ Checking))
    /\ (checkLog # <<>> /\ Last(checkLog).judge) => Done
    /\ (opLog # <<>> /\ Last(opLog) = "n") => Done

\* C12 witness: as many failed checks and declines as the model allows
\* generations, and the run is still at the generator.
C12_Witness ==
    /\ pc = "workflow_generator"
    /\ Len(opLog) = MaxIter
    /\ Len(checkLog) = MaxIter
    /\ \A i \in 1..MaxIter : opLog[i] = "y" /\ ~checkLog[i].judge

\* The text the client had produced in this Generator invocation before
\* its latest call.
ProducedBefore == Concat(SubSeq(partials, 1, llm_calls - 1))

\* C13 -- Resume query: every re-invocation after a length-limit signal is
\* sent the original query followed by the text already produced in this
\* attempt as existing-answer context, and the text returned is that text
\* followed by the continuation.
C13_ResumeQuery ==
    (llm_calls >= 2) =>
        /\ sent[1].query =
               IF ProducedBefore # ""
               THEN query \o ExistingAnswer \o ProducedBefore
               ELSE query
        /\ (pc = "check") =>
               Last(messages) = ProducedBefore \o current_answer

\* A client call has just raised the length-limit signal.
LengthSignalStep ==
    /\ total_llm' # total_llm
    /\ exc' # <<>>
    /\ Contains(LengthPhrase, exc')

\* C14 as stated -- a length-limit signal never ends the run abnormally
\* and never changes RunState, whichever call raised it.
C14_LengthLimitNeverSurfaced ==
    [][LengthSignalStep => (pc' # "raised" /\ UNCHANGED RunState)]_vars

\* C14 amended -- a length-limit signal raised by a Generator call never
\* ends the run abnormally and never changes RunState; the resume loop does
\* nothing but call the client again, returns only with a call that raised
\* nothing, and returns with the first such call.
C14_GeneratorLengthLimitRecovered ==
    [][/\ (pc = "get_complete_answer" /\ LengthSignalStep) =>
              /\ pc' = "get_complete_answer"
              /\ raised' = ""
              /\ UNCHANGED RunState
       /\ (pc = "get_complete_answer") => total_llm' = total_llm + 1
       /\ (pc = "get_complete_answer" /\ pc' = "check") => exc' = <<>>
       /\ (pc = "get_complete_answer" /\ exc' = <<>>) => pc' = "check"]_vars

\* C14 witness: the Generator returned after two length-limit signals.
C14_Witness ==
    /\ pc = "check"
    /\ Len(partials) = 2
    /\ llm_calls = 3
    /\ raised = ""

\* C15 as stated -- a template load failure aborts the run before any
\* client call has been made, whichever step performs the load.
C15_LoadFailureBeforeAnyCall == (raised \in LoadFailures) => total_llm = 0

\* C15 amended -- a template load failure is fatal and aborts the run
\* before the step that performed the load has made any client call: that
\* step sends nothing and merges nothing, and no step follows.
C15_LoadFailureBeforeOwnCall ==
    [][/\ (raised = "" /\ raised' \in LoadFailures) =>
              /\ pc' = "raised"
              /\ total_llm' = total_llm
              /\ sent' = sent
              /\ UNCHANGED RunState
       /\ (raised \in LoadFailures) => UNCHANGED vars]_vars

\* C15 witness: the load of the second check failed, after the client calls
\* of two generations and one check.
C15_Witness ==
    /\ pc = "raised"
    /\ raised = "TemplateParseError"
    /\ Len(checked) = 2
    /\ Len(checkLog) = 1
    /\ total_llm >= 3

\* Does a rendered prompt hold the feedback block.
HasFeedbackBlock(prompt) ==
    \E i \in 1..Len(prompt) : prompt[i] = FeedbackBlock

\* C16 -- The feedback block is in a generation prompt exactly when the
\* feedback is non-empty; a prompt without it is the template and the query
\* alone, which is what the first generation and a retry after an empty
\* reason are sent.
C16_FeedbackBlockIffNonEmpty ==
    (llm_calls > 0) =>
        /\ HasFeedbackBlock(sent[1].prompt) <=> (judgement_reason # "")
        /\ (judgement_reason = "") =>
               sent[1].prompt = <<RoleDetails, sent[1].query>>
        /\ (Len(genLog) = 1) => ~HasFeedbackBlock(sent[1].prompt)

\* C16 witness: the second generation, after a failed check whose reason
\* was empty, has called the client.
C16_Witness ==
    /\ pc = "check"
    /\ Len(genLog) = 2
    /\ checkLog[1] = [reason |-> "", judge |-> FALSE]
    /\ sent[1].prompt = <<RoleDetails, query>>

\* C17 -- The candidate read by every check and shown by every operator
\* gate is the last entry of messages at that time, the document the
\* latest Generator call returned; messages is non-empty from the end of
\* the first generation on.
C17_CandidateIsLastEntry ==
    /\ Len(checked) <= Len(messages)
    /\ \A k \in 1..Len(checked) : checked[k] = messages[k]
    /\ (Checking \/ AwaitingOperator \/ Done \/ Len(genLog) >= 2) =>
           messages # <<>>
    /\ Checking => messages[Len(messages)] = answer
    /\ (pc = "input") =>
           /\ shown[1].candidate = messages[Len(messages)]
           /\ Len(checked) = Len(messages)

\* C17 witness: the gate shows the second of two different documents.
C17_Witness ==
    /\ pc = "input"
    /\ Len(messages) = 2
    /\ messages[1] # messages[2]
    /\ shown[1].candidate = messages[2]

\* C18 -- Wherever judgement_reason is read (generator, operator gate,
\* final report) every document of messages has been checked and the
\* reason is the one of the check of the last entry (the empty default
\* before the first generation); what the gate showed and main reported is
\* that reason together with that entry.
C18_ReasonIsOfLastEntry ==
    /\ (Generating \/ AwaitingOperator \/ Done) =>
           /\ Len(checkLog) = Len(messages)
           /\ Len(checked) = Len(messages)
           /\ (checkLog = <<>>) => judgement_reason = ""
           /\ (checkLog # <<>>) =>
                  /\ judgement_reason = checkLog[Len(checkLog)].reason
                  /\ checked[Len(checked)] = messages[Len(messages)]
    /\ (pc = "input") =>
           /\ shown[1].reason = checkLog[Len(checkLog)].reason
           /\ shown[1].candidate = messages[Len(checkLog)]
    /\ (pc = "exit") =>
           /\ reported[1].reason = checkLog[Len(checkLog)].reason
           /\ reported[1].candidate = messages[Len(checkLog)]

\* C18 witness: the report after an operator accept of the second document.
C18_Witness ==
    /\ pc = "exit"
    /\ operator_approved
    /\ Len(messages) = 2
    /\ checkLog[1].reason = "True"
    /\ reported[1].reason = "missing step 2"

\* C19 -- Each step changes only its own fields of RunState: generation
\* only messages, the check only current_judge and judgement_reason, the
\* operator gate only operator_approved; query never changes, and nothing
\* of RunState changes once the graph has ended.
C19_StepFrames ==
    [][/\ query' = query
       /\ Generating =>
              UNCHANGED <<current_judge, judgement_reason, operator_approved>>
       /\ Checking => UNCHANGED <<messages, operator_approved>>
       /\ AwaitingOperator =>
              UNCHANGED <<messages, current_judge, judgement_reason>>
       /\ (Done \/ Aborted) => UNCHANGED RunState]_vars

\* C19 witness: every kind of step has run, twice, with non-default values.
C19_Witness ==
    /\ pc = "exit"
    /\ operator_approved
    /\ Len(messages) = 2
    /\ judgement_reason = "False"
    /\ query \in Queries

\* C20 -- In the resume loop a call that ends with the length-limit signal
\* adds nothing to the accumulator: answer is empty at every retry, every
\* call of the invocation is sent the query of the first call, and the
\* text returned is the response of the call that completed, alone.
C20_TruncatedCallsLeaveNoText ==
    /\ (pc = "get_complete_answer") => answer = ""
    /\ (llm_calls > 0) =>
           /\ sent[1].query = query
           /\ sent[1].judgement_reason = arg_reason
    /\ (pc = "check") =>
           /\ answer = current_answer
           /\ messages[Len(messages)] = current_answer

\* C20 witness: two calls were cut off after producing text, the third
\* completed with "A", and "A" is the document.
C20_Witness ==
    /\ pc = "check"
    /\ partials = <<"P", "P">>
    /\ llm_calls = 3
    /\ messages[Len(messages)] = "A"

====
